---------------------------- MODULE Spec2Model ----------------------------
(***************************************************************************)
(* A model of the chess engine of sv-pro/chess: the position model and its *)
(* codec (Board::from_fen, board_to_fen), Board::make_move, the move       *)
(* generator (generate_moves), the attack detector (is_in_check), the      *)
(* evaluator, the alpha-beta search (minimax, get_best_move) and the bot   *)
(* turn of the console program that drives them.                           *)
(*                                                                         *)
(* A text is a sequence of one-character strings.  A Board is a record     *)
(* [squares, turn]; squares maps the indices 0..63 (row * 8 + col) to an   *)
(* Option<Piece>, where None is the record NoPiece.                        *)
(***************************************************************************)
EXTENDS Integers, Sequences, FiniteSets, TLC

VARIABLES
    pc,             \* where the program is: which call is pending or done
    fen,            \* the position text handed to the engine
    board,          \* the current Board
    arg,            \* the argument(s) of the pending or last call
    ret,            \* what the last call returned
    user_color,     \* console: the side the user plays
    excluded_moves, \* console: the bot turn's excluded moves
    tries,          \* console: iterations of the bot turn's loop so far
    recent_boards,  \* console: the last boards the bot left behind
    history_len     \* console: history.len()

vars == <<pc, fen, board, arg, ret, user_color, excluded_moves, tries,
          recent_boards, history_len>>

----------------------------------------------------------------------------
(* Basic types (lib.rs 5-21, 113-119)                                      *)

PieceType == {"Pawn", "Knight", "Bishop", "Rook", "Queen", "King"}

Color == {"White", "Black"}

NoPiece == [piece_type |-> "None", color |-> "None"]

Piece == [piece_type : PieceType, color : Color]

Sq == 0..63

Coord == 0..7

Move == [from_row : Coord, from_col : Coord, to_row : Coord, to_col : Coord]

Mv(fr, fc, tr, tc) == [from_row |-> fr, from_col |-> fc, to_row |-> tr, to_col |-> tc]

Opposite(color) == IF color = "White" THEN "Black" ELSE "White"

Max(a, b) == IF a >= b THEN a ELSE b

Min(a, b) == IF a <= b THEN a ELSE b

Abs(x) == IF x < 0 THEN -x ELSE x

\* Board::new: the empty board, White to move.
NewBoard == [squares |-> [i \in Sq |-> NoPiece], turn |-> "White"]

\* Board::get_piece: bounds-checked; out of range yields None.
get_piece(b, row, col) ==
    IF row < 0 \/ col < 0 \/ row >= 8 \/ col >= 8 THEN NoPiece
    ELSE b.squares[row * 8 + col]

----------------------------------------------------------------------------
(* Characters                                                              *)

DigitChars == {"0", "1", "2", "3", "4", "5", "6", "7", "8", "9"}

\* char::to_digit(10), on the digit characters.
to_digit(ch) ==
    CASE ch = "0" -> 0 [] ch = "1" -> 1 [] ch = "2" -> 2 [] ch = "3" -> 3
      [] ch = "4" -> 4 [] ch = "5" -> 5 [] ch = "6" -> 6 [] ch = "7" -> 7
      [] ch = "8" -> 8 [] ch = "9" -> 9

\* usize::to_string for the counts 1..8 that board_to_fen formats.
digit_to_string(n) ==
    CASE n = 0 -> "0" [] n = 1 -> "1" [] n = 2 -> "2" [] n = 3 -> "3"
      [] n = 4 -> "4" [] n = 5 -> "5" [] n = 6 -> "6" [] n = 7 -> "7"
      [] n = 8 -> "8" [] n = 9 -> "9"

\* The upper-case letters of the model's alphabet (char::is_uppercase).
UpperChars == {"P", "N", "B", "R", "Q", "K", "X", "W"}

is_uppercase(ch) == ch \in UpperChars

\* char::to_ascii_lowercase on the model's alphabet.
to_ascii_lowercase(ch) ==
    CASE ch = "P" -> "p" [] ch = "N" -> "n" [] ch = "B" -> "b"
      [] ch = "R" -> "r" [] ch = "Q" -> "q" [] ch = "K" -> "k"
      [] ch = "X" -> "x" [] ch = "W" -> "w"
      [] OTHER -> ch

\* char::to_ascii_uppercase on the piece letters.
to_ascii_uppercase(ch) ==
    CASE ch = "p" -> "P" [] ch = "n" -> "N" [] ch = "b" -> "B"
      [] ch = "r" -> "R" [] ch = "q" -> "Q" [] ch = "k" -> "K"
      [] OTHER -> ch

PieceLetters == {"p", "n", "b", "r", "q", "k"}

\* The match of from_fen (lib.rs 43-51), on a recognised lower-case letter.
LetterType(ch) ==
    CASE ch = "p" -> "Pawn" [] ch = "n" -> "Knight" [] ch = "b" -> "Bishop"
      [] ch = "r" -> "Rook" [] ch = "q" -> "Queen" [] ch = "k" -> "King"

\* The match of board_to_fen (console_chess.rs 328-335).
TypeLetter(t) ==
    CASE t = "Pawn" -> "p" [] t = "Knight" -> "n" [] t = "Bishop" -> "b"
      [] t = "Rook" -> "r" [] t = "Queen" -> "q" [] t = "King" -> "k"

----------------------------------------------------------------------------
(* Position codec                                                          *)

\* str::split(sep): the pieces of text between separators, empty ones kept.
\* Cut(k) is the index of separator number k from the left, 0 before the
\* first one and Len(text) + 1 after the last one.
split(text, sep) ==
    LET at == {i \in 1..Len(text) : text[i] = sep}
        n == Cardinality(at)
        Cut(k) ==
            IF k = 0 THEN 0
            ELSE IF k > n THEN Len(text) + 1
            ELSE CHOOSE i \in at : Cardinality({j \in at : j <= i}) = k
    IN [k \in 1..(n + 1) |-> SubSeq(text, Cut(k - 1) + 1, Cut(k) - 1)]

\* str::split_whitespace: the non-empty pieces between blanks.
split_whitespace(text) == SelectSeq(split(text, " "), LAMBDA p : Len(p) > 0)

\* The outcome of a computation that may panic.
Panic == [ok |-> FALSE]

Ok(v) == [ok |-> TRUE, val |-> v]

RECURSIVE FenRow(_, _, _, _, _)
\* The inner loop of from_fen (lib.rs 37-55) on one rank group: squares so
\* far, row r, the group's text, the next character i and the column c.
\* Yields the squares, or Panic on an unrecognised letter or a write past
\* the array.
FenRow(squares, r, row, i, c) ==
    IF i > Len(row) THEN Ok(squares)
    ELSE LET ch == row[i] IN
         IF ch \in DigitChars
         THEN FenRow(squares, r, row, i + 1, c + to_digit(ch))
         ELSE IF to_ascii_lowercase(ch) \notin PieceLetters THEN Panic
         ELSE IF r * 8 + c >= 64 THEN Panic
         ELSE LET color == IF is_uppercase(ch) THEN "White" ELSE "Black"
                  piece_type == LetterType(to_ascii_lowercase(ch))
              IN FenRow([squares EXCEPT ![r * 8 + c] =
                            [piece_type |-> piece_type, color |-> color]],
                        r, row, i + 1, c + 1)

RECURSIVE FenRows(_, _, _)
\* The outer loop of from_fen (lib.rs 36-56): rows from index r (1-based r+1).
FenRows(squares, rows, r) ==
    IF r >= Len(rows) THEN Ok(squares)
    ELSE LET one == FenRow(squares, r, rows[r + 1], 1, 0) IN
         IF one.ok THEN FenRows(one.val, rows, r + 1) ELSE Panic

\* Board::from_fen (lib.rs 30-64): Ok(board), or Panic where the code panics
\* (no field at all, an unrecognised letter, a square index of 64 or more).
from_fen(text) ==
    LET parts == split_whitespace(text) IN
    IF Len(parts) = 0 THEN Panic
    ELSE LET rows == split(parts[1], "/")
             placed == FenRows(NewBoard.squares, rows, 0)
         IN IF ~placed.ok THEN Panic
            ELSE Ok([squares |-> placed.val,
                     turn |-> IF Len(parts) > 1
                              THEN (IF parts[2] = <<"w">> THEN "White" ELSE "Black")
                              ELSE "White"])

RECURSIVE FenEncodeRow(_, _, _, _)
\* The inner loop of board_to_fen (console_chess.rs 321-347) for row r from
\* column c, with the count of empty squares pending.
FenEncodeRow(b, r, c, empty) ==
    IF c >= 8 THEN (IF empty > 0 THEN <<digit_to_string(empty)>> ELSE <<>>)
    ELSE LET p == get_piece(b, r, c) IN
         IF p # NoPiece
         THEN (IF empty > 0 THEN <<digit_to_string(empty)>> ELSE <<>>)
              \o <<IF p.color = "White"
                   THEN to_ascii_uppercase(TypeLetter(p.piece_type))
                   ELSE TypeLetter(p.piece_type)>>
              \o FenEncodeRow(b, r, c + 1, 0)
         ELSE FenEncodeRow(b, r, c + 1, empty + 1)

RECURSIVE FenEncodeRows(_, _)
FenEncodeRows(b, r) ==
    IF r >= 8 THEN <<>>
    ELSE FenEncodeRow(b, r, 0, 0) \o (IF r < 7 THEN <<"/">> ELSE <<>>)
         \o FenEncodeRows(b, r + 1)

\* board_to_fen (console_chess.rs 317-355).
board_to_fen(b) ==
    FenEncodeRows(b, 0)
    \o <<" ", IF b.turn = "White" THEN "w" ELSE "b", " ", "-", " ", "-", " ", "0", " ", "1">>

----------------------------------------------------------------------------
(* Position model                                                          *)

\* A faulty make_move that leaves the moved piece on its from-square as well.
make_move_copying(b, m) ==
    LET from == m.from_row * 8 + m.from_col
        to == m.to_row * 8 + m.to_col
        placed == [b.squares EXCEPT ![to] = b.squares[from]]
        p == placed[to]
        promoted ==
            IF p # NoPiece /\ p.piece_type = "Pawn"
               /\ ((p.color = "White" /\ m.to_row = 0) \/ (p.color = "Black" /\ m.to_row = 7))
            THEN [placed EXCEPT ![to] = [piece_type |-> "Queen", color |-> p.color]]
            ELSE placed
    IN [squares |-> promoted, turn |-> Opposite(b.turn)]

\* A faulty make_move that promotes White pawns only.
make_move_white_promotes(b, m) ==
    LET from == m.from_row * 8 + m.from_col
        to == m.to_row * 8 + m.to_col
        piece == b.squares[from]
        taken == [b.squares EXCEPT ![from] = NoPiece]
        placed == [taken EXCEPT ![to] = piece]
        p == placed[to]
        promoted ==
            IF p # NoPiece /\ p.piece_type = "Pawn" /\ p.color = "White" /\ m.to_row = 0
            THEN [placed EXCEPT ![to] = [piece_type |-> "Queen", color |-> p.color]]
            ELSE placed
    IN [squares |-> promoted, turn |-> Opposite(b.turn)]

\* Board::make_move (lib.rs 71-110): no legality check.
make_move(b, m) ==
    LET from == m.from_row * 8 + m.from_col
        to == m.to_row * 8 + m.to_col
        piece == b.squares[from]
        taken == [b.squares EXCEPT ![from] = NoPiece]
        placed == [taken EXCEPT ![to] = piece]
        p == placed[to]
        promoted ==
            IF p # NoPiece /\ p.piece_type = "Pawn"
               /\ ((p.color = "White" /\ m.to_row = 0) \/ (p.color = "Black" /\ m.to_row = 7))
            THEN [placed EXCEPT ![to] = [piece_type |-> "Queen", color |-> p.color]]
            ELSE placed
    IN [squares |-> promoted, turn |-> Opposite(b.turn)]

----------------------------------------------------------------------------
(* Attack detector                                                         *)

KnightDirs == <<<<-2, -1>>, <<-2, 1>>, <<-1, -2>>, <<-1, 2>>, <<1, -2>>, <<1, 2>>, <<2, -1>>, <<2, 1>>>>

BishopDirs == <<<<-1, -1>>, <<-1, 1>>, <<1, -1>>, <<1, 1>>>>

RookDirs == <<<<-1, 0>>, <<1, 0>>, <<0, -1>>, <<0, 1>>>>

QueenDirs == <<<<-1, -1>>, <<-1, 0>>, <<-1, 1>>, <<0, -1>>, <<0, 1>>, <<1, -1>>, <<1, 0>>, <<1, 1>>>>

\* The dirs of is_in_check (lib.rs 332-335): rook rays first, then bishop rays.
CheckDirs == <<<<-1, 0>>, <<1, 0>>, <<0, -1>>, <<0, 1>>, <<-1, -1>>, <<-1, 1>>, <<1, -1>>, <<1, 1>>>>

InBoard(r, c) == r >= 0 /\ r < 8 /\ c >= 0 /\ c < 8

\* A faulty king search that yields square 0 when the side has no king.
king_pos_corner(b, color) ==
    LET ks == {i \in Sq : b.squares[i] = [piece_type |-> "King", color |-> color]}
    IN IF ks = {} THEN 0 ELSE CHOOSE i \in ks : \A j \in ks : i <= j

\* The king search of is_in_check (lib.rs 266-274): the first index holding
\* the side's king, or -1 for None.
king_pos(b, color) ==
    LET ks == {i \in Sq : b.squares[i] = [piece_type |-> "King", color |-> color]}
    IN IF ks = {} THEN -1 ELSE CHOOSE i \in ks : \A j \in ks : i <= j

RECURSIVE SlideHits(_, _, _, _, _, _, _)
\* The while loop of is_in_check (lib.rs 357-368): from (r, c) along
\* (dr, dc), ray number i (0-based); TRUE when the first piece met is an
\* opposing queen, or rook on a rook ray, or bishop on a bishop ray.
SlideHits(b, opponent, i, r, c, dr, dc) ==
    IF ~InBoard(r, c) THEN FALSE
    ELSE LET p == get_piece(b, r, c) IN
         IF p # NoPiece
         THEN p.color = opponent
              /\ (p.piece_type = "Queen"
                  \/ (i < 4 /\ p.piece_type = "Rook")
                  \/ (i >= 4 /\ p.piece_type = "Bishop"))
         ELSE SlideHits(b, opponent, i, r + dr, c + dc, dr, dc)

\* A faulty ray test in which an adjacent rook or bishop counts on every ray.
RayHits_any_ray(b, opponent, kr, kc, i) ==
    LET dr == CheckDirs[i + 1][1]
        dc == CheckDirs[i + 1][2]
        r == kr + dr
        c == kc + dc
    IN IF ~InBoard(r, c) THEN FALSE
       ELSE LET p == get_piece(b, r, c) IN
            IF p # NoPiece
            THEN p.color = opponent
                 /\ p.piece_type \in {"King", "Queen", "Rook", "Bishop"}
            ELSE SlideHits(b, opponent, i, r + dr, c + dc, dr, dc)

\* One iteration of the ray loop of is_in_check (lib.rs 337-370), ray i.
RayHits(b, opponent, kr, kc, i) ==
    LET dr == CheckDirs[i + 1][1]
        dc == CheckDirs[i + 1][2]
        r == kr + dr
        c == kc + dc
    IN IF ~InBoard(r, c) THEN FALSE
       ELSE LET p == get_piece(b, r, c) IN
            IF p # NoPiece
            THEN p.color = opponent
                 /\ (p.piece_type = "King" \/ p.piece_type = "Queen"
                     \/ (i < 4 /\ p.piece_type = "Rook")
                     \/ (i >= 4 /\ p.piece_type = "Bishop"))
            ELSE SlideHits(b, opponent, i, r + dr, c + dc, dr, dc)

\* is_in_check (lib.rs 264-373).
is_in_check(b, color) ==
    LET king_idx == king_pos(b, color) IN
    IF king_idx = -1 THEN TRUE
    ELSE LET kr == king_idx \div 8
             kc == king_idx % 8
             opponent == Opposite(color)
             enemy_dir == IF opponent = "White" THEN -1 ELSE 1
         IN \/ \E dc \in {-1, 1} :
                 LET r == kr - enemy_dir
                     c == kc + dc
                 IN InBoard(r, c)
                    /\ get_piece(b, r, c) = [piece_type |-> "Pawn", color |-> opponent]
            \/ \E k \in 1..8 :
                 LET r == kr + KnightDirs[k][1]
                     c == kc + KnightDirs[k][2]
                 IN InBoard(r, c)
                    /\ get_piece(b, r, c) = [piece_type |-> "Knight", color |-> opponent]
            \/ \E i \in 0..7 : RayHits(b, opponent, kr, kc, i)

----------------------------------------------------------------------------
(* Move generator                                                          *)

\* The directions of a piece kind (lib.rs 174-180).
Dirs(piece_type) ==
    CASE piece_type = "Pawn" -> <<>>
      [] piece_type = "Knight" -> KnightDirs
      [] piece_type = "Bishop" -> BishopDirs
      [] piece_type = "Rook" -> RookDirs
      [] piece_type \in {"Queen", "King"} -> QueenDirs

\* A faulty pawn branch without the two-square step.
PawnMoves_single_step(b, r, c, piece) ==
    LET dir == IF piece.color = "White" THEN -1 ELSE 1
        r1 == r + dir
        step1 == InBoard(r1, c) /\ get_piece(b, r1, c) = NoPiece
        Cap(dc) ==
            LET target == get_piece(b, r1, c + dc) IN
            IF InBoard(r1, c + dc) /\ target # NoPiece /\ target.color # piece.color
            THEN <<Mv(r, c, r1, c + dc)>> ELSE <<>>
    IN (IF step1 THEN <<Mv(r, c, r1, c)>> ELSE <<>>)
       \o Cap(-1) \o Cap(1)

\* The pawn branch (lib.rs 182-207): one step, two steps, then the captures.
PawnMoves(b, r, c, piece) ==
    LET dir == IF piece.color = "White" THEN -1 ELSE 1
        r1 == r + dir
        r2 == r + dir * 2
        step1 == InBoard(r1, c) /\ get_piece(b, r1, c) = NoPiece
        step2 == step1
                 /\ ((piece.color = "White" /\ r = 6) \/ (piece.color = "Black" /\ r = 1))
                 /\ InBoard(r2, c) /\ get_piece(b, r2, c) = NoPiece
        Cap(dc) ==
            LET target == get_piece(b, r1, c + dc) IN
            IF InBoard(r1, c + dc) /\ target # NoPiece /\ target.color # piece.color
            THEN <<Mv(r, c, r1, c + dc)>> ELSE <<>>
    IN (IF step1 THEN <<Mv(r, c, r1, c)>> ELSE <<>>)
       \o (IF step2 THEN <<Mv(r, c, r2, c)>> ELSE <<>>)
       \o Cap(-1) \o Cap(1)

RECURSIVE StepMoves_short(_, _, _, _, _, _)
\* A faulty knight and king branch that never tries the last offset.
StepMoves_short(b, r, c, piece, dirs, k) ==
    IF k >= Len(dirs) THEN <<>>
    ELSE LET nr == r + dirs[k][1]
             nc == c + dirs[k][2]
             target == get_piece(b, nr, nc)
         IN (IF InBoard(nr, nc) /\ (target = NoPiece \/ target.color # piece.color)
             THEN <<Mv(r, c, nr, nc)>> ELSE <<>>)
            \o StepMoves_short(b, r, c, piece, dirs, k + 1)

RECURSIVE StepMoves(_, _, _, _, _, _)
\* The knight and king branch (lib.rs 208-220): the offsets from number k.
StepMoves(b, r, c, piece, dirs, k) ==
    IF k > Len(dirs) THEN <<>>
    ELSE LET nr == r + dirs[k][1]
             nc == c + dirs[k][2]
             target == get_piece(b, nr, nc)
         IN (IF InBoard(nr, nc) /\ (target = NoPiece \/ target.color # piece.color)
             THEN <<Mv(r, c, nr, nc)>> ELSE <<>>)
            \o StepMoves(b, r, c, piece, dirs, k + 1)

RECURSIVE Ray(_, _, _, _, _, _, _, _)
\* The while loop of the sliding branch (lib.rs 226-240) from (nr, nc).
Ray(b, r, c, piece, nr, nc, dr, dc) ==
    IF ~InBoard(nr, nc) THEN <<>>
    ELSE LET target == get_piece(b, nr, nc) IN
         IF target = NoPiece
         THEN <<Mv(r, c, nr, nc)>> \o Ray(b, r, c, piece, nr + dr, nc + dc, dr, dc)
         ELSE IF target.color # piece.color THEN <<Mv(r, c, nr, nc)>> ELSE <<>>

RECURSIVE SlideMoves(_, _, _, _, _, _)
\* The sliding branch (lib.rs 221-242): the directions from number k.
SlideMoves(b, r, c, piece, dirs, k) ==
    IF k > Len(dirs) THEN <<>>
    ELSE Ray(b, r, c, piece, r + dirs[k][1], c + dirs[k][2], dirs[k][1], dirs[k][2])
         \o SlideMoves(b, r, c, piece, dirs, k + 1)

\* The pseudo-legal moves of the piece on (r, c) (lib.rs 168-243).
PieceMoves(b, r, c) ==
    LET piece == get_piece(b, r, c) IN
    IF piece = NoPiece \/ piece.color # b.turn THEN <<>>
    ELSE IF piece.piece_type = "Pawn" THEN PawnMoves(b, r, c, piece)
    ELSE IF piece.piece_type \in {"Knight", "King"}
         THEN StepMoves(b, r, c, piece, Dirs(piece.piece_type), 1)
    ELSE SlideMoves(b, r, c, piece, Dirs(piece.piece_type), 1)

RECURSIVE ScanSquares(_, _, _)
\* The iterations lo .. hi - 1 of the scan of generate_moves (lib.rs 166-246)
\* in index order; the range is halved so that the evaluation nests six deep
\* instead of sixty-four.
ScanSquares(b, lo, hi) ==
    IF lo >= hi THEN <<>>
    ELSE IF hi = lo + 1 THEN PieceMoves(b, lo \div 8, lo % 8)
    ELSE LET mid == (lo + hi) \div 2
         IN ScanSquares(b, lo, mid) \o ScanSquares(b, mid, hi)

\* The scan of generate_moves (lib.rs 166-246), from square index i on.
PseudoFrom(b, i) == ScanSquares(b, i, 64)

pseudo_moves(b) == PseudoFrom(b, 0)

\* A faulty legality filter that keeps every pseudo-legal move.
KeepsKingSafe_unfiltered(b, m) == TRUE

\* A faulty legality filter that tests the side that did not move.
KeepsKingSafe_other_side(b, m) ==
    ~is_in_check(make_move(b, m), Opposite(b.turn))

\* The filter of generate_moves (lib.rs 253-261): the move is kept when the
\* mover's own king is not attacked after it.
KeepsKingSafe(b, m) == ~is_in_check(make_move(b, m), b.turn)

\* generate_moves (lib.rs 164-262).
generate_moves(b) == SelectSeq(pseudo_moves(b), LAMBDA m : KeepsKingSafe(b, m))

----------------------------------------------------------------------------
(* Evaluator                                                               *)

PAWN_VAL == 100

KNIGHT_VAL == 320

BISHOP_VAL == 330

ROOK_VAL == 500

QUEEN_VAL == 900

KING_VAL == 20000

PieceVal(piece_type) ==
    CASE piece_type = "Pawn" -> PAWN_VAL
      [] piece_type = "Knight" -> KNIGHT_VAL
      [] piece_type = "Bishop" -> BISHOP_VAL
      [] piece_type = "Rook" -> ROOK_VAL
      [] piece_type = "Queen" -> QUEEN_VAL
      [] piece_type = "King" -> KING_VAL

\* The term of one square in the sum of evaluate (lib.rs 139-158).
SquareVal(b, i) ==
    LET piece == b.squares[i] IN
    IF piece = NoPiece THEN 0
    ELSE IF piece.color = "White" THEN PieceVal(piece.piece_type)
    ELSE -PieceVal(piece.piece_type)

RECURSIVE EvalRange(_, _, _)
\* The sum of the squares lo .. hi - 1 (lib.rs 138-159); the range is halved
\* so that the evaluation nests six deep instead of sixty-four.
EvalRange(b, lo, hi) ==
    IF lo >= hi THEN 0
    ELSE IF hi = lo + 1 THEN SquareVal(b, lo)
    ELSE LET mid == (lo + hi) \div 2
         IN EvalRange(b, lo, mid) + EvalRange(b, mid, hi)

\* The sum of evaluate from square index i on (lib.rs 138-159).
EvalFrom(b, i) == EvalRange(b, i, 64)

\* evaluate (lib.rs 136-161): material, from White's side.
evaluate(b) == EvalFrom(b, 0)

----------------------------------------------------------------------------
(* Search                                                                  *)

\* The magnitude of the checkmate score before the depth term (lib.rs 384).
MATE == 100000

\* The bound of the search window and of the running best (lib.rs 390, 434).
INF == 1000000

\* A faulty sentinel that moves a hundred points per ply of remaining depth.
NoMoveScore_steep(b, depth, maximizing_player) ==
    IF is_in_check(b, b.turn)
    THEN (IF maximizing_player THEN -MATE + depth * 100 ELSE MATE - depth * 100)
    ELSE 0

\* The score of a node without legal moves (lib.rs 382-387): the checkmate
\* score of the side to move when it is in check, else the stalemate score.
NoMoveScore(b, depth, maximizing_player) ==
    IF is_in_check(b, b.turn)
    THEN (IF maximizing_player THEN -MATE + depth ELSE MATE - depth)
    ELSE 0

RECURSIVE minimax(_, _, _, _, _)
RECURSIVE MaxLoop(_, _, _, _, _, _, _)
RECURSIVE MinLoop(_, _, _, _, _, _, _)

RECURSIVE MaxLoop_greedy(_, _, _, _, _, _, _)
\* A faulty maximizing loop that stops at the first move that raises alpha.
MaxLoop_greedy(b, moves, k, depth, alpha, beta, max_eval) ==
    IF k > Len(moves) THEN max_eval
    ELSE LET eval == minimax(make_move(b, moves[k]), depth - 1, alpha, beta, FALSE)
             new_max == Max(max_eval, eval)
             new_alpha == Max(alpha, eval)
         IN IF alpha < new_alpha THEN new_max
            ELSE MaxLoop_greedy(b, moves, k + 1, depth, new_alpha, beta, new_max)

\* The maximizing loop of minimax (lib.rs 390-401) from move number k.
MaxLoop(b, moves, k, depth, alpha, beta, max_eval) ==
    IF k > Len(moves) THEN max_eval
    ELSE LET eval == minimax(make_move(b, moves[k]), depth - 1, alpha, beta, FALSE)
             new_max == Max(max_eval, eval)
             new_alpha == Max(alpha, eval)
         IN IF beta <= new_alpha THEN new_max
            ELSE MaxLoop(b, moves, k + 1, depth, new_alpha, beta, new_max)

\* The minimizing loop of minimax (lib.rs 403-414) from move number k.
MinLoop(b, moves, k, depth, alpha, beta, min_eval) ==
    IF k > Len(moves) THEN min_eval
    ELSE LET eval == minimax(make_move(b, moves[k]), depth - 1, alpha, beta, TRUE)
             new_min == Min(min_eval, eval)
             new_beta == Min(beta, eval)
         IN IF new_beta <= alpha THEN new_min
            ELSE MinLoop(b, moves, k + 1, depth, alpha, new_beta, new_min)

\* minimax (lib.rs 376-416).
minimax(b, depth, alpha, beta, maximizing_player) ==
    IF depth = 0 THEN evaluate(b)
    ELSE LET moves == generate_moves(b) IN
         IF Len(moves) = 0 THEN NoMoveScore(b, depth, maximizing_player)
         ELSE IF maximizing_player THEN MaxLoop(b, moves, 1, depth, alpha, beta, -INF)
         ELSE MinLoop(b, moves, 1, depth, alpha, beta, INF)

\* The value the root gives a move (lib.rs 432-434), for depth >= 1.
RootVal(b, m, depth) == minimax(make_move(b, m), depth - 1, -INF, INF, b.turn # "White")

\* A faulty replacement test in which an equal value replaces the best one.
Improves_or_equals(maximizing, val, best_val) ==
    IF maximizing THEN val >= best_val ELSE val <= best_val

\* Whether the root replaces its best value by val (lib.rs 436-446).
Improves(maximizing, val, best_val) ==
    IF maximizing THEN val > best_val ELSE val < best_val

RECURSIVE RootLoop(_, _, _, _, _, _)
\* The loop of get_best_move (lib.rs 431-447) from move number k, with the
\* best move and value so far.
RootLoop(b, moves, k, depth, best_move, best_val) ==
    IF k > Len(moves) THEN best_move
    ELSE LET val == RootVal(b, moves[k], depth) IN
         IF Improves(b.turn = "White", val, best_val)
         THEN RootLoop(b, moves, k + 1, depth, moves[k], val)
         ELSE RootLoop(b, moves, k + 1, depth, best_move, best_val)

\* A faulty root that reports no move when a single candidate is left.
best_of_several(b, moves, depth) ==
    IF Len(moves) <= 1 THEN <<>>
    ELSE <<RootLoop(b, moves, 1, depth, moves[1],
                    IF b.turn = "White" THEN -INF ELSE INF)>>

\* The root of the search on the candidate moves (lib.rs 423-449): None
\* (the empty sequence) for no candidate, else Some(best move).
best_of(b, moves, depth) ==
    IF Len(moves) = 0 THEN <<>>
    ELSE <<RootLoop(b, moves, 1, depth, moves[1],
                    IF b.turn = "White" THEN -INF ELSE INF)>>

\* Move::to_string (lib.rs 122-125): "from_row,from_col,to_row,to_col".
to_string(m) ==
    <<digit_to_string(m.from_row), ",", digit_to_string(m.from_col), ",",
      digit_to_string(m.to_row), ",", digit_to_string(m.to_col)>>

\* get_best_move (lib.rs 418-450), for depth >= 1: the move as text, the
\* empty text for no move, Panic where from_fen panics.
get_best_move(text, depth) ==
    LET parsed == from_fen(text) IN
    IF ~parsed.ok THEN Panic
    ELSE LET best == best_of(parsed.val, generate_moves(parsed.val), depth) IN
         Ok(IF best = <<>> THEN <<>> ELSE to_string(best[1]))

\* A faulty exclusion that removes nothing.
NotExcluded_nothing(moves, excluded) == moves

\* The legal moves that are not excluded, in generation order.
NotExcluded(moves, excluded) ==
    SelectSeq(moves, LAMBDA m : \A k \in 1..Len(excluded) : excluded[k] # m)

\* get_best_move_core(fen, depth, excluded) -> Option<Move>: get_best_move
\* with the excluded moves removed from the root's legal moves.
get_best_move_core(text, depth, excluded) ==
    LET parsed == from_fen(text) IN
    IF ~parsed.ok THEN Panic
    ELSE Ok(best_of(parsed.val, NotExcluded(generate_moves(parsed.val), excluded), depth))

----------------------------------------------------------------------------
(* The console program: the game loop of main (console_chess.rs 85-241)    *)

\* The depth the bot searches to (console_chess.rs 191).
BOT_DEPTH == 3

\* The iterations of the bot turn's loop (console_chess.rs 188).
BOT_TRIES == 5

\* The boards recent_boards keeps (console_chess.rs 233).
RECENT_CAP == 2

\* The moves a game is followed for from the starting position; /new starts
\* the count again.
MaxPly == 1

\* "k7/8/8/8/8/8/8/7K b": the two kings in opposite corners
KingsFen ==
    <<"k", "7", "/", "8", "/", "8", "/", "8", "/", "8", "/", "8", "/", "8", "/", "7",
       "K", " ", "b">>

\* "7k/P7/8/8/8/8/p7/K7 w": a pawn of each side one step from its far rank
PawnsFen ==
    <<"7", "k", "/", "P", "7", "/", "8", "/", "8", "/", "8", "/", "8", "/", "p", "7",
       "/", "K", "7", " ", "w">>

\* "4k3/8/8/8/8/4r3/4B3/4K3 w": a bishop pinned to its king by a rook
PinFen ==
    <<"4", "k", "3", "/", "8", "/", "8", "/", "8", "/", "8", "/", "4", "r", "3", "/",
       "4", "B", "3", "/", "4", "K", "3", " ", "w">>

\* "7k/8/R6K/8/8/8/8/8 w": White mates at once with Ra8
RookMateFen ==
    <<"7", "k", "/", "8", "/", "R", "6", "K", "/", "8", "/", "8", "/", "8", "/", "8",
       "/", "8", " ", "w">>

\* "k7/P7/8/K7/8/8/8/8 w": Ka6 leaves Black without a move, and not in check
StalemateFen ==
    <<"k", "7", "/", "P", "7", "/", "8", "/", "K", "7", "/", "8", "/", "8", "/", "8", "/", "8", " ", "w">>

\* "8/8/8/3k4/8/3K4/8/8 b": the kings two rows apart
NearKingsFen ==
    <<"8", "/", "8", "/", "8", "/", "3", "k", "4", "/", "8", "/", "3", "K", "4", "/", "8", "/", "8", " ", "b">>

\* "rnbqkbnr/pppppppp/8/8/8/8/PPPPPPPP/RNBQKBNR w KQkq - 0 1": the standard starting position (console_chess.rs 54)
StartFen ==
    <<"r", "n", "b", "q", "k", "b", "n", "r", "/", "p", "p", "p", "p", "p", "p", "p",
       "p", "/", "8", "/", "8", "/", "8", "/", "8", "/", "P", "P", "P", "P", "P", "P",
       "P", "P", "/", "R", "N", "B", "Q", "K", "B", "N", "R", " ", "w", " ", "K", "Q",
       "k", "q", " ", "-", " ", "0", " ", "1">>

\* None and Some(m) of an Option<Move>.
NoMove == <<>>

Some(m) == <<m>>

\* recent_boards.push_back(b), then pop_front beyond the capacity
\* (console_chess.rs 232-235).
PushRecent(recent, b) ==
    LET pushed == Append(recent, b) IN
    IF Len(pushed) > RECENT_CAP THEN Tail(pushed) ELSE pushed

\* The repetition test of the bot turn (console_chess.rs 197-204).
is_repetition(recent, test_board) ==
    \E k \in 1..Len(recent) :
        /\ \A i \in Sq : recent[k].squares[i] = test_board.squares[i]
        /\ recent[k].turn = test_board.turn

\* The state main enters its loop in (console_chess.rs 54-58): the standard
\* starting position, the user White, no move played, no recent board.
GameInit ==
    /\ pc = "turn"
    /\ fen = StartFen
    /\ board = from_fen(StartFen).val
    /\ arg = NoMove
    /\ ret = NoMove
    /\ user_color = "White"
    /\ excluded_moves = <<>>
    /\ tries = 0
    /\ recent_boards = <<>>
    /\ history_len = 0

\* The user's turn, a move (console_chess.rs 156-166): it is made when it is
\* one of the legal moves, and refused otherwise.
UserMove ==
    /\ pc = "turn"
    /\ board.turn = user_color
    /\ history_len < MaxPly
    /\ \E k \in 1..Len(generate_moves(board)) :
          LET m == generate_moves(board)[k] IN
          /\ board' = make_move(board, m)
          /\ arg' = [self |-> board, m |-> m]
    /\ history_len' = history_len + 1
    /\ UNCHANGED <<pc, fen, ret, user_color, excluded_moves, tries, recent_boards>>

\* The user's turn, /swap (console_chess.rs 138-145).
UserSwap ==
    /\ pc = "turn"
    /\ board.turn = user_color
    /\ user_color' = Opposite(user_color)
    /\ UNCHANGED <<pc, fen, board, arg, ret, excluded_moves, tries, recent_boards, history_len>>

\* The user's turn, /new (console_chess.rs 129-137): the standard starting
\* position again, the user White, the history cleared; recent_boards is
\* left as it is.
UserNew ==
    /\ pc = "turn"
    /\ board.turn = user_color
    /\ board' = from_fen(StartFen).val
    /\ user_color' = "White"
    /\ history_len' = 0
    /\ UNCHANGED <<pc, fen, arg, ret, excluded_moves, tries, recent_boards>>

\* The user's turn, quit, /quit, Ctrl-C, Ctrl-D or a read error
\* (console_chess.rs 106-107, 168-179): the loop is left.
UserQuit ==
    /\ pc = "turn"
    /\ board.turn = user_color
    /\ pc' = "exit"
    /\ UNCHANGED <<fen, board, arg, ret, user_color, excluded_moves, tries, recent_boards, history_len>>

\* The bot's turn begins (console_chess.rs 181-186).
BotStart ==
    /\ pc = "turn"
    /\ board.turn # user_color
    /\ history_len < MaxPly
    /\ pc' = "bot"
    /\ excluded_moves' = <<>>
    /\ ret' = NoMove
    /\ tries' = 0
    /\ UNCHANGED <<fen, board, arg, user_color, recent_boards, history_len>>

\* One iteration of the bot turn's loop (console_chess.rs 188-217).
BotTry ==
    /\ pc = "bot"
    /\ tries < BOT_TRIES
    /\ fen' = board_to_fen(board)
    /\ LET found == get_best_move_core(board_to_fen(board), BOT_DEPTH, excluded_moves).val IN
       IF found = NoMove
       THEN /\ pc' = "bot_done"
            /\ UNCHANGED <<ret, excluded_moves>>
       ELSE IF is_repetition(recent_boards, make_move(board, found[1]))
       THEN /\ excluded_moves' = Append(excluded_moves, found[1])
            /\ pc' = IF tries + 1 < BOT_TRIES THEN "bot" ELSE "bot_done"
            /\ UNCHANGED ret
       ELSE /\ ret' = found
            /\ pc' = "bot_done"
            /\ UNCHANGED excluded_moves
    /\ tries' = tries + 1
    /\ UNCHANGED <<board, arg, user_color, recent_boards, history_len>>

\* The bot plays the move it found (console_chess.rs 219-235).
BotPlay ==
    /\ pc = "bot_done"
    /\ ret # NoMove
    /\ board' = make_move(board, ret[1])
    /\ arg' = [self |-> board, m |-> ret[1]]
    /\ history_len' = history_len + 1
    /\ recent_boards' = PushRecent(recent_boards, make_move(board, ret[1]))
    /\ pc' = "turn"
    /\ UNCHANGED <<fen, ret, user_color, excluded_moves, tries>>

\* The bot found no move: the game is over (console_chess.rs 236-239).
BotGameOver ==
    /\ pc = "bot_done"
    /\ ret = NoMove
    /\ pc' = "exit"
    /\ UNCHANGED <<fen, board, arg, ret, user_color, excluded_moves, tries, recent_boards, history_len>>

Next ==
    UserMove \/ UserSwap \/ UserNew \/ UserQuit \/ BotStart \/ BotTry \/ BotPlay
        \/ BotGameOver

Spec == GameInit /\ [][Next]_vars

----------------------------------------------------------------------------
(* The library called on a position: is_in_check and generate_moves        *)

\* "8/8/8/3q4/8/8/4P3/8 w": White without a king
NoKingFen ==
    <<"8", "/", "8", "/", "8", "/", "3", "q", "4", "/", "8", "/", "8", "/", "4", "P",
       "3", "/", "8", " ", "w">>

\* "r7/8/8/8/8/8/8/K6R b": Black without a king, its rook can take the white king
KinglessRookFen ==
    <<"r", "7", "/", "8", "/", "8", "/", "8", "/", "8", "/", "8", "/", "8", "/", "K", "6", "R", " ", "b">>

\* The position texts the library is called on.
LibFens ==
    {StartFen, KingsFen, PawnsFen, PinFen, RookMateFen, StalemateFen, NearKingsFen,
     NoKingFen, KinglessRookFen}

\* The squares of the king in the family of positions below: a corner, a
\* centre square, a square of the last row.
KingSquares == {0, 28, 62}

\* The squares within two steps of square k along the eight rays from it.
Ring(k) ==
    {i \in Sq : LET dr == (i \div 8) - (k \div 8)
                    dc == (i % 8) - (k % 8)
                IN /\ i # k
                   /\ Abs(dr) <= 2 /\ Abs(dc) <= 2
                   /\ (dr = 0 \/ dc = 0 \/ Abs(dr) = Abs(dc))}

\* The board with the pieces of placed (square -> piece) and the side to move.
BoardOf(placed, turn) ==
    [squares |-> [i \in Sq |-> IF i \in DOMAIN placed THEN placed[i] ELSE NoPiece],
     turn |-> turn]

\* The third piece of a position of the family: a knight of the king's side
\* or an opposing pawn.
Third(own, c) ==
    IF own THEN [piece_type |-> "Knight", color |-> c]
    ELSE [piece_type |-> "Pawn", color |-> Opposite(c)]

\* A family of positions: a king of either side on one of KingSquares, an
\* opposing piece of any kind on any other square and, or not, a third piece
\* (a knight of the king's side or an opposing pawn) within two steps of the
\* king on one of its rays; the king's side is to move.
IsFamilyBoard(b) ==
    \E k \in KingSquares, c \in Color, a \in Sq \ KingSquares, t \in PieceType :
        LET two == (k :> [piece_type |-> "King", color |-> c])
                   @@ (a :> [piece_type |-> t, color |-> Opposite(c)])
        IN \/ b = BoardOf(two, c)
           \/ \E x \in Ring(k) \ (KingSquares \cup {a}), own \in BOOLEAN :
                 b = BoardOf(two @@ (x :> Third(own, c)), c)

LibInit ==
    /\ pc = "idle"
    /\ \/ \E f \in LibFens : fen = f /\ board = from_fen(f).val
       \/ IsFamilyBoard(board) /\ fen = board_to_fen(board)
    /\ arg = NoMove
    /\ ret = NoMove
    /\ user_color = "White"
    /\ excluded_moves = <<>>
    /\ tries = 0
    /\ recent_boards = <<>>
    /\ history_len = 0

\* is_in_check(&board, color) is called.
CallIsInCheck ==
    /\ pc = "idle"
    /\ \E color \in Color :
          /\ arg' = color
          /\ ret' = is_in_check(board, color)
    /\ pc' = "check_done"
    /\ UNCHANGED <<fen, board, user_color, excluded_moves, tries, recent_boards, history_len>>

\* generate_moves(&board) is called.
CallGenerate ==
    /\ pc = "idle"
    /\ ret' = generate_moves(board)
    /\ pc' = "gen_done"
    /\ UNCHANGED <<fen, board, arg, user_color, excluded_moves, tries, recent_boards, history_len>>

LibNext == CallIsInCheck \/ CallGenerate

SpecLib == LibInit /\ [][LibNext]_vars

----------------------------------------------------------------------------
(* Board::make_move called with any move                                   *)

\* "P3k2p/8/8/3p4/3P4/8/8/p3K2P b": pawns on the first and last rows
FarPawnsFen ==
    <<"P", "3", "k", "2", "p", "/", "8", "/", "8", "/", "3", "p", "4", "/", "3", "P",
       "4", "/", "8", "/", "8", "/", "p", "3", "K", "2", "P", " ", "b">>

\* The position texts make_move is called on.
MoveFens == {PawnsFen, FarPawnsFen, PinFen}

MoveInit ==
    /\ pc = "idle"
    /\ \E f \in MoveFens : fen = f /\ board = from_fen(f).val
    /\ arg = NoMove
    /\ ret = NoMove
    /\ user_color = "White"
    /\ excluded_moves = <<>>
    /\ tries = 0
    /\ recent_boards = <<>>
    /\ history_len = 0

\* board.make_move(&m) is called, with any move at all.
CallMakeMove ==
    /\ pc = "idle"
    /\ \E m \in Move :
          /\ arg' = [self |-> board, m |-> m]
          /\ board' = make_move(board, m)
    /\ pc' = "moved"
    /\ UNCHANGED <<fen, ret, user_color, excluded_moves, tries, recent_boards, history_len>>

MoveNext == CallMakeMove

SpecMove == MoveInit /\ [][MoveNext]_vars

----------------------------------------------------------------------------
(* Board::from_fen called with a text                                      *)

\* The most rank groups of a text.
MaxGroups == 9

\* The rank groups of the texts: well-formed ones, ones of fewer and of more
\* than eight squares, an empty one, one with an unrecognised letter.
GroupPool ==
    {<<"8">>, <<"k", "7">>, <<"4", "K", "3">>, <<"p", "p", "p", "p", "p", "p", "p", "p">>,
     <<"7">>, <<"9">>, <<"4", "4", "Q">>, <<>>, <<"x", "7">>, <<"3", "X", "4">>,
     <<"P", "P", "P", "P", "P", "P", "P", "P", "P">>}

\* What may follow the piece placement: nothing, or a side to move.
SidePool == {<<>>, <<" ", "w">>, <<" ", "b">>, <<" ", "w", " ", "-", " ", "-", " ", "0", " ", "1">>}

RECURSIVE JoinGroups(_, _, _, _)
\* The text of n rank groups separated by "/", all "8" except group number at,
\* which is g; from group number i on.
JoinGroups(n, at, g, i) ==
    IF i > n THEN <<>>
    ELSE (IF i = at THEN g ELSE <<"8">>)
         \o (IF i < n THEN <<"/">> ELSE <<>>)
         \o JoinGroups(n, at, g, i + 1)

FenInit ==
    /\ pc = "idle"
    /\ \E n \in 1..MaxGroups, g \in GroupPool, side \in SidePool :
          \E at \in 1..n : fen = JoinGroups(n, at, g, 1) \o side
    /\ board = NewBoard
    /\ arg = NoMove
    /\ ret = NoMove
    /\ user_color = "White"
    /\ excluded_moves = <<>>
    /\ tries = 0
    /\ recent_boards = <<>>
    /\ history_len = 0

\* Board::from_fen(fen) returns a board.
FromFenReturns ==
    /\ pc = "idle"
    /\ from_fen(fen).ok
    /\ board' = from_fen(fen).val
    /\ pc' = "decoded"
    /\ UNCHANGED <<fen, arg, ret, user_color, excluded_moves, tries, recent_boards, history_len>>

\* Board::from_fen(fen) panics.
FromFenPanics ==
    /\ pc = "idle"
    /\ ~from_fen(fen).ok
    /\ pc' = "panicked"
    /\ UNCHANGED <<fen, board, arg, ret, user_color, excluded_moves, tries, recent_boards, history_len>>

FenNext == FromFenReturns \/ FromFenPanics

SpecFen == FenInit /\ [][FenNext]_vars

----------------------------------------------------------------------------
(* The search called on a position text                                    *)

\* The deepest search called for.
MaxDepth == 4

\* The most moves excluded from a search.
MaxExcluded == 1

\* "k7/8/1K6/8/8/8/8/8 b": Black has one legal move
OneMoveFen ==
    <<"k", "7", "/", "8", "/", "1", "K", "6", "/", "8", "/", "8", "/", "8", "/", "8",
       "/", "8", " ", "b">>

\* "k7/8/2K5/8/8/8/8/8 b": Black has two legal moves, of equal value
TwoMovesFen ==
    <<"k", "7", "/", "8", "/", "2", "K", "5", "/", "8", "/", "8", "/", "8", "/", "8",
       "/", "8", " ", "b">>

\* "k7/N7/2K5/8/8/8/8/8 b": Black has two legal moves, the second takes a knight
KnightFen ==
    <<"k", "7", "/", "N", "7", "/", "2", "K", "5", "/", "8", "/", "8", "/", "8", "/",
       "8", "/", "8", " ", "b">>

\* "k7/P7/K7/8/8/8/8/8 b": Black has no legal move and is not in check
StalematedFen ==
    <<"k", "7", "/", "P", "7", "/", "K", "7", "/", "8", "/", "8", "/", "8", "/", "8",
       "/", "8", " ", "b">>

\* "R6k/8/7K/8/8/8/8/8 b": Black has no legal move and is in check
MatedFen ==
    <<"R", "6", "k", "/", "8", "/", "7", "K", "/", "8", "/", "8", "/", "8", "/", "8",
       "/", "8", " ", "b">>

\* "7k/1P6/7K/8/8/8/8/8 w": White mates at once with b8=Q, or a move later after Kg6
PromoMateFen ==
    <<"7", "k", "/", "1", "P", "6", "/", "7", "K", "/", "8", "/", "8", "/", "8", "/",
       "8", "/", "8", " ", "w">>

\* "k7/8/8/8/3p1p2/4P3/8/7K w": White's pawn can take either of two pawns
CapturesFen ==
    <<"k", "7", "/", "8", "/", "8", "/", "8", "/", "3", "p", "1", "p", "2", "/", "4",
       "P", "3", "/", "8", "/", "7", "K", " ", "w">>

\* "7k/8/8/3p4/4P3/8/8/K7 b": Black's pawn can take a pawn
BlackCaptureFen ==
    <<"7", "k", "/", "8", "/", "8", "/", "3", "p", "4", "/", "4", "P", "3", "/", "8",
       "/", "8", "/", "K", "7", " ", "b">>

\* The position texts the search is called on.
SearchFens ==
    {KingsFen, OneMoveFen, TwoMovesFen, KnightFen, StalematedFen, MatedFen,
     PromoMateFen, CapturesFen, BlackCaptureFen}

\* The lists of at most MaxExcluded of the given moves.
ExcludedLists(moves) ==
    UNION {[1..n -> {moves[k] : k \in 1..Len(moves)}] : n \in 0..MaxExcluded}

SearchInit ==
    /\ pc = "idle"
    /\ fen \in SearchFens
    /\ board = NewBoard
    /\ arg = NoMove
    /\ ret = NoMove
    /\ user_color = "White"
    /\ excluded_moves = <<>>
    /\ tries = 0
    /\ recent_boards = <<>>
    /\ history_len = 0

\* get_best_move(fen, depth) is called; board is the position it decodes.
CallGetBestMove ==
    /\ pc = "idle"
    /\ \E depth \in 1..MaxDepth :
          /\ arg' = [depth |-> depth, excluded |-> <<>>]
          /\ ret' = get_best_move(fen, depth)
    /\ board' = from_fen(fen).val
    /\ pc' = "best_done"
    /\ UNCHANGED <<fen, user_color, excluded_moves, tries, recent_boards, history_len>>

\* get_best_move_core(fen, depth, &excluded) is called, with some of the
\* position's legal moves excluded.
CallGetBestMoveCore ==
    /\ pc = "idle"
    /\ \E depth \in 1..MaxDepth,
          excluded \in ExcludedLists(generate_moves(from_fen(fen).val)) :
          /\ arg' = [depth |-> depth, excluded |-> excluded]
          /\ ret' = get_best_move_core(fen, depth, excluded)
    /\ board' = from_fen(fen).val
    /\ pc' = "core_done"
    /\ UNCHANGED <<fen, user_color, excluded_moves, tries, recent_boards, history_len>>

SearchNext == CallGetBestMove \/ CallGetBestMoveCore

SpecSearch == SearchInit /\ [][SearchNext]_vars

----------------------------------------------------------------------------
(* Properties                                                              *)

FromSq(m) == m.from_row * 8 + m.from_col

ToSq(m) == m.to_row * 8 + m.to_col

\* The squares holding a king of the side.
KingsOf(b, color) ==
    {i \in Sq : b.squares[i] = [piece_type |-> "King", color |-> color]}

\* The far rank of a side's pawns.
FarRow(color) == IF color = "White" THEN 0 ELSE 7

\* C1: in every position, every move generate_moves returns leaves, once
\* applied with make_move, the king of the side that moved not in check.
C1_LegalMovesKeepKingSafe ==
    pc = "gen_done" =>
        \A k \in 1..Len(ret) : ~is_in_check(make_move(board, ret[k]), board.turn)

\* A position whose side to move is in check, with legal moves and with
\* pseudo-legal moves that the filter removed.
C1_Witness ==
    /\ pc = "gen_done"
    /\ is_in_check(board, board.turn)
    /\ Len(ret) > 0
    /\ Len(ret) < Len(pseudo_moves(board))

\* Square t lies strictly between squares s and k on a row, column or diagonal.
Between(s, t, k) ==
    LET dr == (k \div 8) - (s \div 8)
        dc == (k % 8) - (s % 8)
        er == (t \div 8) - (s \div 8)
        ec == (t % 8) - (s % 8)
    IN /\ (dr = 0 \/ dc = 0 \/ Abs(dr) = Abs(dc))
       /\ er * dc = ec * dr
       /\ er * dr >= 0 /\ ec * dc >= 0
       /\ Abs(er) + Abs(ec) > 0
       /\ Abs(er) + Abs(ec) < Abs(dr) + Abs(dc)

\* The piece on square s attacks square k, by the movement patterns.
Attacks(b, s, k) ==
    LET p == b.squares[s]
        dr == (k \div 8) - (s \div 8)
        dc == (k % 8) - (s % 8)
        clear == \A t \in Sq : Between(s, t, k) => b.squares[t] = NoPiece
        orthogonal == (dr = 0 /\ dc # 0) \/ (dc = 0 /\ dr # 0)
        diagonal == Abs(dr) = Abs(dc) /\ dr # 0
    IN CASE p.piece_type = "Pawn" ->
              dr = (IF p.color = "White" THEN -1 ELSE 1) /\ Abs(dc) = 1
         [] p.piece_type = "Knight" -> {Abs(dr), Abs(dc)} = {1, 2}
         [] p.piece_type = "King" -> Max(Abs(dr), Abs(dc)) = 1
         [] p.piece_type = "Rook" -> orthogonal /\ clear
         [] p.piece_type = "Bishop" -> diagonal /\ clear
         [] p.piece_type = "Queen" -> (orthogonal \/ diagonal) /\ clear
         [] OTHER -> FALSE

\* Some piece of the other side attacks the square of the side's king.
KingAttacked(b, color) ==
    \E k \in KingsOf(b, color) :
        \E s \in Sq : b.squares[s].color = Opposite(color) /\ Attacks(b, s, k)

\* C2: for a side that has a king, is_in_check is true exactly when a piece
\* of the other side attacks the king's square: a pawn from one of the two
\* squares it captures from, a knight, an adjacent king, or a rook, bishop or
\* queen along a ray with nothing in between.
C2_CheckIffAttacked ==
    (pc = "check_done" /\ Cardinality(KingsOf(board, arg)) = 1) =>
        (ret <=> KingAttacked(board, arg))

\* A king that is not in check although a rook, bishop or queen of the other
\* side stands on one of its rays: the ray is blocked.
C2_Witness ==
    /\ pc = "check_done"
    /\ Cardinality(KingsOf(board, arg)) = 1
    /\ ret = FALSE
    /\ \E k \in KingsOf(board, arg), s \in Sq, t \in Sq :
          /\ board.squares[s].color = Opposite(arg)
          /\ board.squares[s].piece_type \in {"Rook", "Bishop", "Queen"}
          /\ Between(s, t, k)
          /\ board.squares[t] # NoPiece
          /\ Attacks([board EXCEPT !.squares[t] = NoPiece], s, k)

\* What make_move leaves on the to-square when it moves piece p to row to_row.
Arrived(p, to_row) ==
    IF p.piece_type = "Pawn" /\ to_row = FarRow(p.color)
    THEN [piece_type |-> "Queen", color |-> p.color]
    ELSE p

\* C3, as claimed: make_move of a move between two squares leaves the
\* from-square empty and the piece that was on it on the to-square, flips the
\* side to move and leaves the other 62 squares unchanged.
C3_AsClaimed ==
    (pc = "moved" /\ FromSq(arg.m) # ToSq(arg.m)) =>
        /\ board.squares[FromSq(arg.m)] = NoPiece
        /\ board.squares[ToSq(arg.m)] = arg.self.squares[FromSq(arg.m)]
        /\ board.turn = Opposite(arg.self.turn)
        /\ \A i \in Sq \ {FromSq(arg.m), ToSq(arg.m)} :
              board.squares[i] = arg.self.squares[i]

\* C3, amended: make_move of a move between two squares leaves the
\* from-square empty and, on the to-square, the piece that was on the
\* from-square, or the queen of its side if that piece is a pawn arriving on
\* its far rank; it flips the side to move and leaves the other 62 squares
\* unchanged.
C3_MakeMoveFrame ==
    (pc = "moved" /\ FromSq(arg.m) # ToSq(arg.m)) =>
        /\ board.squares[FromSq(arg.m)] = NoPiece
        /\ board.squares[ToSq(arg.m)]
              = Arrived(arg.self.squares[FromSq(arg.m)], arg.m.to_row)
        /\ board.turn = Opposite(arg.self.turn)
        /\ \A i \in Sq \ {FromSq(arg.m), ToSq(arg.m)} :
              board.squares[i] = arg.self.squares[i]

\* A move that put a piece on the square of a king of the other side.
C3_Witness ==
    /\ pc = "moved"
    /\ FromSq(arg.m) # ToSq(arg.m)
    /\ arg.self.squares[FromSq(arg.m)] # NoPiece
    /\ arg.self.squares[ToSq(arg.m)].piece_type = "King"
    /\ arg.self.squares[ToSq(arg.m)].color # arg.self.squares[FromSq(arg.m)].color
    /\ board.squares[ToSq(arg.m)].piece_type # "King"

\* C4: after make_move, a pawn moved onto its far rank (row 0 for White,
\* row 7 for Black) is a queen of its side; a pawn moved to another row, and
\* any other piece, keeps its kind and its side.
C4_PromotionToQueen ==
    (pc = "moved" /\ arg.self.squares[FromSq(arg.m)] # NoPiece) =>
        LET p == arg.self.squares[FromSq(arg.m)]
            q == board.squares[ToSq(arg.m)]
        IN /\ q.color = p.color
           /\ (p.piece_type = "Pawn" /\ arg.m.to_row = FarRow(p.color))
                 => q.piece_type = "Queen"
           /\ ~(p.piece_type = "Pawn" /\ arg.m.to_row = FarRow(p.color))
                 => q.piece_type = p.piece_type

\* A black pawn that stepped from row 6 onto row 7 and is a queen.
C4_Witness ==
    /\ pc = "moved"
    /\ arg.self.squares[FromSq(arg.m)] = [piece_type |-> "Pawn", color |-> "Black"]
    /\ arg.m.from_row = 6
    /\ arg.m.to_row = 7
    /\ board.squares[ToSq(arg.m)] = [piece_type |-> "Queen", color |-> "Black"]

\* The squares a rank group stands for: its digits plus its other characters.
RECURSIVE GroupCount(_, _)
GroupCount(g, i) ==
    IF i > Len(g) THEN 0
    ELSE (IF g[i] \in DigitChars THEN to_digit(g[i]) ELSE 1) + GroupCount(g, i + 1)

\* A text is well formed: its piece placement has exactly 8 rank groups, each
\* of exactly 8 squares, and every piece character is one of p, n, b, r, q, k
\* in either case.
WellFormed(text) ==
    /\ Len(split_whitespace(text)) > 0
    /\ LET groups == split(split_whitespace(text)[1], "/") IN
       /\ Len(groups) = 8
       /\ \A r \in 1..Len(groups) :
             /\ GroupCount(groups[r], 1) = 8
             /\ \A i \in 1..Len(groups[r]) :
                   groups[r][i] \in DigitChars \cup PieceLetters \cup {"P", "N", "B", "R", "Q", "K"}

\* C8: from_fen fails, and yields no position, on every text that is not well
\* formed: one it decodes is well formed.
C8_MalformedRejected == pc = "decoded" => WellFormed(fen)

\* C10: from the standard starting position generate_moves returns exactly
\* 20 moves, all of them moves of White pieces.
C10_StartHasTwentyMoves ==
    (pc = "gen_done" /\ fen = StartFen) =>
        /\ Len(ret) = 20
        /\ Cardinality({ret[k] : k \in 1..Len(ret)}) = 20
        /\ \A k \in 1..Len(ret) : board.squares[FromSq(ret[k])].color = "White"

\* generate_moves has returned on the standard starting position, and among
\* the moves are a pawn's double step and a knight's jump.
C10_Witness ==
    /\ pc = "gen_done"
    /\ fen = StartFen
    /\ board.squares[4] = [piece_type |-> "King", color |-> "Black"]
    /\ \E k \in 1..Len(ret) : ret[k] = Mv(6, 4, 4, 4)
    /\ \E k \in 1..Len(ret) : ret[k] = Mv(7, 6, 5, 5)

\* The root's candidates: the legal moves of the position that are not in
\* the excluded list, in generation order.
Candidates(b, excluded) ==
    SelectSeq(generate_moves(b),
              LAMBDA m : m \notin {excluded[k] : k \in 1..Len(excluded)})

\* The move a finished search call returned, as Option<Move>: the value of
\* get_best_move_core, or the move whose text get_best_move returned.
Returned ==
    IF pc = "core_done" THEN ret.val
    ELSE IF ret.val = <<>> THEN NoMove
    ELSE LET legal == generate_moves(board)
             hits == {k \in 1..Len(legal) : to_string(legal[k]) = ret.val}
         IN IF hits = {} THEN Some(Mv(0, 0, 0, 0))
            ELSE Some(legal[CHOOSE k \in hits : TRUE])

SearchDone == pc \in {"best_done", "core_done"}

\* C5: the root search returns no move exactly when no legal move of the
\* position is left once the excluded ones are removed, and otherwise one of
\* the moves that are left; returning no move is a normal return.
C5_NoMoveIffNoCandidate ==
    SearchDone =>
        LET cands == Candidates(board, arg.excluded) IN
        /\ ret.ok
        /\ (ret.val = <<>>) <=> (Len(cands) = 0)
        /\ Len(cands) > 0 =>
              \E k \in 1..Len(cands) :
                  IF pc = "core_done" THEN ret.val = Some(cands[k])
                  ELSE ret.val = to_string(cands[k])

\* The position has legal moves, all of them are excluded, and the search
\* returned no move.
C5_Witness ==
    /\ pc = "core_done"
    /\ Len(generate_moves(board)) > 0
    /\ Len(Candidates(board, arg.excluded)) = 0
    /\ ret.ok
    /\ ret.val = NoMove

\* v is at least as good as w for the side to move at the root.
AsGood(b, v, w) == IF b.turn = "White" THEN v >= w ELSE v <= w

\* C6: the move the root returns is the first, in generation order, of the
\* candidates whose child search value is best for the side to move (the
\* maximum for White, the minimum for Black): no candidate is better, and
\* every earlier candidate is worse.
C6_FirstBestMove ==
    (SearchDone /\ Returned # NoMove) =>
        LET cands == Candidates(board, arg.excluded)
            val == [k \in 1..Len(cands) |-> RootVal(board, cands[k], arg.depth)]
        IN \E k \in 1..Len(cands) :
              /\ cands[k] = Returned[1]
              /\ \A j \in 1..Len(cands) : AsGood(board, val[k], val[j])
              /\ \A j \in 1..(k - 1) : ~AsGood(board, val[j], val[k])

\* The returned move is not the first candidate, and a later candidate has
\* the same value.
C6_Witness ==
    /\ pc = "best_done"
    /\ Returned # NoMove
    /\ LET cands == generate_moves(board) IN
       \E k \in 2..Len(cands) :
          /\ cands[k] = Returned[1]
          /\ \E j \in (k + 1)..Len(cands) :
                RootVal(board, cands[j], arg.depth) = RootVal(board, cands[k], arg.depth)

\* Move m mates at once: after it the other side has no legal move and is in
\* check.
MatesAtOnce(b, m) ==
    LET after == make_move(b, m) IN
    Len(generate_moves(after)) = 0 /\ is_in_check(after, after.turn)

\* C7: a node without legal moves whose side to move is in check is scored so
\* that a mate nearer the root is more extreme than one further away, and so
\* the search prefers the fastest forced mate: when some candidate mates at
\* once and the search looks at least two plies deep, the returned move mates
\* at once.
C7_PrefersFastestMate ==
    (SearchDone /\ Returned # NoMove /\ arg.depth >= 2) =>
        LET cands == Candidates(board, arg.excluded) IN
        (\E k \in 1..Len(cands) : MatesAtOnce(board, cands[k]))
            => MatesAtOnce(board, Returned[1])

RECURSIVE PlainMinimax(_, _, _)
\* The minimax value of a position by full enumeration: every legal move of
\* every node is searched, none is pruned and none is filtered.
PlainMinimax(b, depth, maximizing_player) ==
    IF depth = 0 THEN evaluate(b)
    ELSE LET moves == generate_moves(b)
             vals == {PlainMinimax(make_move(b, moves[k]), depth - 1, ~maximizing_player)
                        : k \in 1..Len(moves)}
         IN IF Len(moves) = 0 THEN NoMoveScore(b, depth, maximizing_player)
            ELSE IF maximizing_player
                 THEN CHOOSE v \in vals : \A w \in vals : v >= w
                 ELSE CHOOSE v \in vals : \A w \in vals : v <= w

\* The full-enumeration value of root move m.
PlainRootVal(b, m, depth) ==
    PlainMinimax(make_move(b, m), depth - 1, b.turn # "White")

\* C9: exclusion filters the legal moves at the root only: the returned move
\* is never an excluded move; the value that selects it is the value of the
\* full tree below it, in which no move is filtered; and in a position with
\* exactly two legal moves, excluding the move the search returns without
\* exclusion makes it return the other move.
C9_ExclusionAtRootOnly ==
    pc = "core_done" =>
        LET legal == generate_moves(board)
            excluded == {arg.excluded[k] : k \in 1..Len(arg.excluded)}
            cands == Candidates(board, arg.excluded)
            val == [k \in 1..Len(cands) |-> PlainRootVal(board, cands[k], arg.depth)]
        IN /\ ret.val # NoMove => ret.val[1] \notin excluded
           /\ ret.val # NoMove =>
                 \E k \in 1..Len(cands) :
                    /\ cands[k] = ret.val[1]
                    /\ \A j \in 1..Len(cands) : AsGood(board, val[k], val[j])
           /\ (/\ Len(legal) = 2
               /\ arg.excluded = get_best_move_core(fen, arg.depth, <<>>).val)
                 => \E k \in 1..2 : /\ Some(legal[k]) = arg.excluded
                                    /\ ret.val = Some(legal[3 - k])

\* A position with exactly two legal moves was searched at least two plies
\* deep with the move it returns without exclusion excluded, and the other
\* move was returned.
C9_Witness ==
    /\ pc = "core_done"
    /\ Len(generate_moves(board)) = 2
    /\ Len(arg.excluded) = 1
    /\ arg.excluded = get_best_move_core(fen, arg.depth, <<>>).val
    /\ ret.val # NoMove
    /\ ret.val # arg.excluded
    /\ arg.depth >= 2

----------------------------------------------------------------------------
(* Positions of the two kings alone                                        *)

\* The deepest search called for on the positions of two kings.
MaxKingsDepth == 2

\* Every placement of a white and a black king on two squares, either side
\* to move.
KingsInit ==
    /\ pc = "idle"
    /\ \E w \in Sq, k \in Sq, turn \in Color :
          /\ w # k
          /\ board = BoardOf((w :> [piece_type |-> "King", color |-> "White"])
                             @@ (k :> [piece_type |-> "King", color |-> "Black"]), turn)
    /\ fen = board_to_fen(board)
    /\ arg = NoMove
    /\ ret = NoMove
    /\ user_color = "White"
    /\ excluded_moves = <<>>
    /\ tries = 0
    /\ recent_boards = <<>>
    /\ history_len = 0

\* get_best_move(fen, depth) is called with a small depth.
CallGetBestMoveShallow ==
    /\ pc = "idle"
    /\ \E depth \in 1..MaxKingsDepth :
          /\ arg' = [depth |-> depth, excluded |-> <<>>]
          /\ ret' = get_best_move(fen, depth)
    /\ pc' = "best_done"
    /\ UNCHANGED <<fen, board, user_color, excluded_moves, tries, recent_boards, history_len>>

KingsNext == CallGenerate \/ CallGetBestMoveShallow

SpecKings == KingsInit /\ [][KingsNext]_vars

\* Squares i and j are next to each other (a king's step apart).
Adjacent(i, j) ==
    /\ i # j
    /\ Abs((i \div 8) - (j \div 8)) <= 1
    /\ Abs((i % 8) - (j % 8)) <= 1

\* The position holds one king of each side and nothing else, the kings are
\* not next to each other and the side to move is not in check.
BareKingsApart(b) ==
    /\ \A i \in Sq : b.squares[i] # NoPiece => b.squares[i].piece_type = "King"
    /\ Cardinality(KingsOf(b, "White")) = 1
    /\ Cardinality(KingsOf(b, "Black")) = 1
    /\ \A i \in KingsOf(b, "White"), j \in KingsOf(b, "Black") : ~Adjacent(i, j)
    /\ ~is_in_check(b, b.turn)

\* The steps of the king of the side to move onto squares of the board that
\* are not next to the other king.
FreeKingSteps(b) ==
    {Mv(i \div 8, i % 8, j \div 8, j % 8) :
        <<i, j>> \in {x \in KingsOf(b, b.turn) \X Sq :
                        /\ Adjacent(x[1], x[2])
                        /\ \A o \in KingsOf(b, Opposite(b.turn)) : ~Adjacent(x[2], o)}}

\* C11, as claimed: a position of the two kings alone, not next to each
\* other, the side to move not in check, has no legal move, and the search
\* reports stalemate: no move at the root.
C11_AsClaimed ==
    BareKingsApart(board) =>
        /\ pc = "gen_done" => Len(ret) = 0
        /\ pc = "best_done" => ret = Ok(<<>>)

\* C11, amended: in a position of the two kings alone, not next to each
\* other, generate_moves returns exactly the steps of the king to move onto
\* squares not next to the other king, of which there is at least one; the
\* position is therefore not a stalemate: the root of the search returns one
\* of these moves, and the value of the search is 0.
C11_BareKingsCanMove ==
    BareKingsApart(board) =>
        /\ pc = "gen_done" =>
              /\ Len(ret) > 0
              /\ {ret[k] : k \in 1..Len(ret)} = FreeKingSteps(board)
              /\ Len(ret) = Cardinality(FreeKingSteps(board))
        /\ pc = "best_done" =>
              /\ ret.ok
              /\ \E m \in FreeKingSteps(board) : ret.val = to_string(m)
              /\ minimax(board, arg.depth, -INF, INF, board.turn = "White") = 0

\* A king in a corner with the other king two files away: a single step is
\* left to it, and the search searched two plies and returned it.
C11_Witness ==
    /\ pc = "best_done"
    /\ BareKingsApart(board)
    /\ arg.depth = 2
    /\ Cardinality(FreeKingSteps(board)) = 1
    /\ ret.val # <<>>

----------------------------------------------------------------------------
(* The scores: material and the checkmate sentinel                         *)

\* The largest value of the 8-bit depth (lib.rs 376: depth: u8).
U8_MAX == 255

\* The ranks of the positions scored, a letter or "." for each square:
\* empty, full of queens, with one king or two, full of kings.
ScoreRanks ==
    {<<".", ".", ".", ".", ".", ".", ".", ".">>,
     <<"Q", "Q", "Q", "Q", "Q", "Q", "Q", "Q">>,
     <<"q", "q", "q", "q", "q", "q", "q", "q">>,
     <<"K", "Q", "Q", "Q", "Q", "Q", "Q", "Q">>,
     <<"q", "q", "q", "q", "q", "q", "q", "k">>,
     <<"Q", "Q", "Q", "Q", "Q", "Q", "Q", "k">>,
     <<"K", ".", ".", ".", ".", ".", ".", "k">>,
     <<"K", "K", "K", "K", "K", "K", "K", "K">>}

\* The ranks that fill the six middle rows.
ScoreMidRanks ==
    {<<".", ".", ".", ".", ".", ".", ".", ".">>,
     <<"Q", "Q", "Q", "Q", "Q", "Q", "Q", "Q">>,
     <<"K", "K", "K", "K", "K", "K", "K", "K">>}

\* The board whose first row is top, whose last is bottom and whose six
\* others are all mid.
ScoreBoard(top, mid, bottom, turn) ==
    [squares |->
        [i \in Sq |->
            LET rank == IF i < 8 THEN top ELSE IF i >= 56 THEN bottom ELSE mid
                ch == rank[(i % 8) + 1]
            IN IF ch = "." THEN NoPiece
               ELSE [piece_type |-> LetterType(to_ascii_lowercase(ch)),
                     color |-> IF is_uppercase(ch) THEN "White" ELSE "Black"]],
     turn |-> turn]

\* "7k/8/8/8/8/8/8/r6K w": White has no legal move and is in check
WhiteMatedFen ==
    <<"7", "k", "/", "8", "/", "8", "/", "8", "/", "8", "/", "8", "/", "8", "/", "r", "6", "K", " ", "w">>

ScoreInit ==
    /\ pc = "idle"
    /\ \/ \E top \in ScoreRanks, mid \in ScoreMidRanks, bottom \in ScoreRanks,
             turn \in Color :
             /\ board = ScoreBoard(top, mid, bottom, turn)
             /\ fen = board_to_fen(board)
       \/ \E f \in {MatedFen, WhiteMatedFen} : fen = f /\ board = from_fen(f).val
    /\ arg = NoMove
    /\ ret = NoMove
    /\ user_color = "White"
    /\ excluded_moves = <<>>
    /\ tries = 0
    /\ recent_boards = <<>>
    /\ history_len = 0

\* evaluate(&board) is called.
CallEvaluate ==
    /\ pc = "idle"
    /\ ret' = evaluate(board)
    /\ pc' = "eval_done"
    /\ UNCHANGED <<fen, board, arg, user_color, excluded_moves, tries, recent_boards, history_len>>

\* minimax is called, with any depth above 0, on a node whose side to move
\* has no legal move and is in check; the side to move is the maximizing
\* player exactly when it is White, as in every call the search makes.
CallMinimaxOnMated ==
    /\ pc = "idle"
    /\ Len(generate_moves(board)) = 0
    /\ is_in_check(board, board.turn)
    /\ \E depth \in 1..U8_MAX :
          /\ arg' = [depth |-> depth]
          /\ ret' = minimax(board, depth, -INF, INF, board.turn = "White")
    /\ pc' = "mate_done"
    /\ UNCHANGED <<fen, board, user_color, excluded_moves, tries, recent_boards, history_len>>

ScoreNext == CallEvaluate \/ CallMinimaxOnMated

SpecScore == ScoreInit /\ [][ScoreNext]_vars

\* The largest material score of a position with at most one king a side:
\* a king and 63 queens against nothing.
MaxMaterial == KING_VAL + 63 * QUEEN_VAL

\* C12, as claimed: every checkmate sentinel is larger in magnitude than
\* every material score evaluate returns for a position given to the search,
\* and lies inside the window (-1000000, 1000000).
C12_AsClaimed ==
    /\ pc = "eval_done" => Abs(ret) < MATE - U8_MAX
    /\ pc = "mate_done" => Abs(ret) >= MATE - U8_MAX /\ Abs(ret) < INF

\* C12, amended: every checkmate sentinel (100000 minus the remaining depth,
\* of the sign of the mated side) is larger in magnitude than every material
\* score evaluate returns for a position with at most one king a side, which
\* is at most a king and 63 queens; and it lies inside the window
\* (-1000000, 1000000).
C12_MateOutranksMaterial ==
    /\ (/\ pc = "eval_done"
        /\ Cardinality(KingsOf(board, "White")) <= 1
        /\ Cardinality(KingsOf(board, "Black")) <= 1)
          => Abs(ret) <= MaxMaterial
    /\ pc = "mate_done" =>
          /\ Abs(ret) = MATE - arg.depth
          /\ Abs(ret) > MaxMaterial
          /\ Abs(ret) < INF
          /\ (ret < 0) <=> (board.turn = "White")

\* The smallest sentinel: minimax with depth 255 on a position where White
\* is mated.
C12_Witness ==
    /\ pc = "mate_done"
    /\ arg.depth = U8_MAX
    /\ KingsOf(board, "White") # {}
    /\ ret = -MATE + U8_MAX

\* C13: for a side that has no king, is_in_check returns true; no move that
\* generate_moves returns leaves the side that moved without a king; and a
\* side to move that has no king has no legal move.
C13_NoKingIsInCheck ==
    /\ (pc = "check_done" /\ KingsOf(board, arg) = {}) => ret = TRUE
    /\ pc = "gen_done" =>
          /\ \A k \in 1..Len(ret) : KingsOf(make_move(board, ret[k]), board.turn) # {}
          /\ KingsOf(board, board.turn) = {} => Len(ret) = 0

\* generate_moves was called on a position whose side to move has no king
\* but has pieces that can move, and returned no move.
C13_Witness ==
    /\ pc = "gen_done"
    /\ KingsOf(board, board.turn) = {}
    /\ Len(pseudo_moves(board)) > 0
    /\ Len(ret) = 0

RECURSIVE Cuts(_, _, _, _, _)
RECURSIVE CutsMax(_, _, _, _, _, _)
RECURSIVE CutsMin(_, _, _, _, _, _)

\* Whether the maximizing loop, from move number k, or a search below it,
\* stops with moves left unsearched.
CutsMax(b, moves, k, depth, alpha, beta) ==
    IF k > Len(moves) THEN FALSE
    ELSE LET child == make_move(b, moves[k])
             new_alpha == Max(alpha, minimax(child, depth - 1, alpha, beta, FALSE))
         IN \/ Cuts(child, depth - 1, alpha, beta, FALSE)
            \/ IF beta <= new_alpha THEN k < Len(moves)
               ELSE CutsMax(b, moves, k + 1, depth, new_alpha, beta)

\* The same for the minimizing loop.
CutsMin(b, moves, k, depth, alpha, beta) ==
    IF k > Len(moves) THEN FALSE
    ELSE LET child == make_move(b, moves[k])
             new_beta == Min(beta, minimax(child, depth - 1, alpha, beta, TRUE))
         IN \/ Cuts(child, depth - 1, alpha, beta, TRUE)
            \/ IF new_beta <= alpha THEN k < Len(moves)
               ELSE CutsMin(b, moves, k + 1, depth, alpha, new_beta)

\* Whether minimax(b, depth, alpha, beta, maximizing_player) leaves some
\* move of some node unsearched.
Cuts(b, depth, alpha, beta, maximizing_player) ==
    IF depth = 0 THEN FALSE
    ELSE LET moves == generate_moves(b) IN
         IF maximizing_player THEN CutsMax(b, moves, 1, depth, alpha, beta)
         ELSE CutsMin(b, moves, 1, depth, alpha, beta)

\* The first of the moves whose full-enumeration value is best for the side
\* to move, as Option<Move>.
PlainBest(b, moves, depth) ==
    IF Len(moves) = 0 THEN NoMove
    ELSE LET val == [k \in 1..Len(moves) |-> PlainRootVal(b, moves[k], depth)]
             best == {k \in 1..Len(moves) :
                        \A j \in 1..Len(moves) : AsGood(b, val[k], val[j])}
         IN Some(moves[CHOOSE k \in best : \A j \in best : k <= j])

\* C14: pruning does not change the result: with the full window
\* (-1000000, 1000000), minimax returns the value of the same depth-limited
\* minimax without any pruning, for the position and below every root move,
\* and get_best_move returns the move an unpruned search chooses.
C14_PruningKeepsValue ==
    pc = "best_done" =>
        LET legal == generate_moves(board) IN
        /\ minimax(board, arg.depth, -INF, INF, board.turn = "White")
              = PlainMinimax(board, arg.depth, board.turn = "White")
        /\ \A k \in 1..Len(legal) :
              RootVal(board, legal[k], arg.depth) = PlainRootVal(board, legal[k], arg.depth)
        /\ Returned = PlainBest(board, legal, arg.depth)

\* get_best_move returned a move after a search that left moves unsearched
\* below a root move.
C14_Witness ==
    /\ pc = "best_done"
    /\ Returned # NoMove
    /\ \E k \in 1..Len(generate_moves(board)) :
          Cuts(make_move(board, generate_moves(board)[k]), arg.depth - 1, -INF, INF,
               board.turn # "White")

----------------------------------------------------------------------------
(* Play: legal moves made one after the other                              *)

\* The moves a line of play is followed for.
MaxPlayPly == 3

\* "r3k3/8/8/3p4/4P3/8/8/4K2R w": rooks, and pawns that can take each other
TacticsFen ==
    <<"r", "3", "k", "3", "/", "8", "/", "8", "/", "3", "p", "4", "/", "4", "P", "3", "/", "8", "/", "8", "/", "4", "K", "2", "R", " ", "w">>

\* The positions play starts from: one king a side, the side not to move
\* not in check.
PlayFens ==
    {KingsFen, PawnsFen, PinFen, RookMateFen, KnightFen, CapturesFen, TacticsFen}

PlayInit ==
    /\ pc = "idle"
    /\ \E f \in PlayFens : fen = f /\ board = from_fen(f).val
    /\ arg = NoMove
    /\ ret = NoMove
    /\ user_color = "White"
    /\ excluded_moves = <<>>
    /\ tries = 0
    /\ recent_boards = <<>>
    /\ history_len = 0

\* One of the moves generate_moves(&board) returns is made with
\* board.make_move(&m), as for a move the user enters
\* (console_chess.rs 157-160).
PlayMove ==
    /\ pc \in {"idle", "played"}
    /\ history_len < MaxPlayPly
    /\ \E k \in 1..Len(generate_moves(board)) :
          LET m == generate_moves(board)[k] IN
          /\ board' = make_move(board, m)
          /\ arg' = [self |-> board, m |-> m]
    /\ pc' = "played"
    /\ history_len' = history_len + 1
    /\ UNCHANGED <<fen, ret, user_color, excluded_moves, tries, recent_boards>>

PlayNext == PlayMove

SpecPlay == PlayInit /\ [][PlayNext]_vars

\* The number of occupied squares.
Occupied(b) == Cardinality({i \in Sq : b.squares[i] # NoPiece})

\* C15: from a position with one king a side whose side not to move is not
\* in check, after any sequence of moves taken from generate_moves and made
\* with make_move, each side still has exactly one king, the side that just
\* moved is not in check, the side to move has changed with the move, and
\* the number of occupied squares is that before the move or one less.
C15_PlayKeepsKings ==
    /\ Cardinality(KingsOf(board, "White")) = 1
    /\ Cardinality(KingsOf(board, "Black")) = 1
    /\ ~is_in_check(board, Opposite(board.turn))
    /\ pc = "played" =>
          /\ board.turn = Opposite(arg.self.turn)
          /\ Occupied(board) <= Occupied(arg.self)
          /\ Occupied(board) >= Occupied(arg.self) - 1

\* After at least two moves, a move that took a piece and gives check.
C15_Witness ==
    /\ pc = "played"
    /\ history_len >= 2
    /\ Occupied(board) = Occupied(arg.self) - 1
    /\ is_in_check(board, board.turn)

----------------------------------------------------------------------------
(* The search called with any depth, 0 included                            *)

\* The deepest search called for here.
MaxRootDepth == 3

\* depth - 1 on the 8-bit depth (lib.rs 434). At depth 0 the subtraction
\* overflows: a build with overflow checks panics, a build without them
\* wraps around to 255.
DepthMinusOne(depth, overflow_checks) ==
    IF depth > 0 THEN Ok(depth - 1)
    ELSE IF overflow_checks THEN Panic
    ELSE Ok(U8_MAX)

\* get_best_move (lib.rs 418-450) for any depth, under either build: the
\* depth given to minimax for the root's moves is DepthMinusOne(depth).
get_best_move_u8(text, depth, overflow_checks) ==
    LET parsed == from_fen(text) IN
    IF ~parsed.ok THEN Panic
    ELSE LET moves == generate_moves(parsed.val)
             child == DepthMinusOne(depth, overflow_checks)
         IN IF Len(moves) = 0 THEN Ok(<<>>)
            ELSE IF ~child.ok THEN Panic
            ELSE Ok(to_string(best_of(parsed.val, moves, child.val + 1)[1]))

\* "8/8/8/8/3r4/7K/4Q1q1/6k1 w": White is in check and has one legal move,
\* Qxg2, which mates
ForcedMateFen ==
    <<"8", "/", "8", "/", "8", "/", "8", "/", "3", "r", "4", "/", "7", "K", "/", "4", "Q", "1", "q", "1", "/", "6", "k", "1", " ", "w">>

\* "1k6/4R3/Q7/8/6qK/8/8/8 w": White is in check and has one legal move,
\* Kxg4, which stalemates
ForcedStalemateFen ==
    <<"1", "k", "6", "/", "4", "R", "3", "/", "Q", "7", "/", "8", "/", "6", "q", "K", "/", "8", "/", "8", "/", "8", " ", "w">>

\* The positions in which every legal move ends the game: a search of any
\* depth visits the root's moves and nothing below them.
ShortFens == {ForcedMateFen, ForcedStalemateFen}

\* The positions with many legal moves, and the deepest search called for
\* on them.
WideFens == {StartFen, TacticsFen}

MaxWideDepth == 1

\* The position texts the search is called on with any depth.
DepthFens ==
    SearchFens \cup ShortFens \cup WideFens
        \cup {StalemateFen, NearKingsFen, FarPawnsFen, WhiteMatedFen}

DepthInit ==
    /\ pc = "idle"
    /\ fen \in DepthFens
    /\ board = NewBoard
    /\ arg = NoMove
    /\ ret = NoMove
    /\ user_color = "White"
    /\ excluded_moves = <<>>
    /\ tries = 0
    /\ recent_boards = <<>>
    /\ history_len = 0

\* get_best_move(fen, depth) is called with a depth from 0 on, in a build
\* with or without overflow checks. The search of 255 plies that follows the
\* wrap-around is followed only from the positions of ShortFens, where it
\* ends below the root's moves; the positions of WideFens are searched to
\* MaxWideDepth.
CallGetBestMoveAnyDepth ==
    /\ pc = "idle"
    /\ \E depth \in 0..MaxRootDepth, overflow_checks \in BOOLEAN :
          /\ (depth = 0 /\ ~overflow_checks) => fen \in ShortFens
          /\ fen \in WideFens => depth <= MaxWideDepth
          /\ arg' = [depth |-> depth, overflow_checks |-> overflow_checks,
                     child |-> DepthMinusOne(depth, overflow_checks)]
          /\ ret' = get_best_move_u8(fen, depth, overflow_checks)
    /\ board' = from_fen(fen).val
    /\ pc' = "depth_done"
    /\ UNCHANGED <<fen, user_color, excluded_moves, tries, recent_boards, history_len>>

DepthNext == CallGetBestMoveAnyDepth

SpecDepth == DepthInit /\ [][DepthNext]_vars

\* C16: get_best_move completes with a result for every root depth from 0;
\* where the root has moves to search, the depth it passes down is one less
\* than its own and the 8-bit counter does not underflow, so that no node
\* deeper than the root depth is explored.
C16_SearchTerminates ==
    pc = "depth_done" =>
        /\ ret.ok
        /\ Len(generate_moves(board)) > 0 =>
              /\ arg.child.ok
              /\ arg.child.val = arg.depth - 1
              /\ arg.child.val < arg.depth

=============================================================================
